---------------------------- MODULE Spec2Model ----------------------------
(***************************************************************************)
(* A model of action_plugins/include_vars_dir.py: the action plugin that   *)
(* walks a directory tree, filters the file names and merges the loaded    *)
(* YAML mappings.                                                          *)
(*                                                                         *)
(* Strings are sequences of one-character strings, so that ordering,       *)
(* splitting, joining and regular-expression search are computed and not   *)
(* assumed.  None is the empty sequence: every place where the plugin      *)
(* tests a string option it tests its truthiness, which is the same for    *)
(* None and for '' (no input of the model is the empty string).            *)
(***************************************************************************)
EXTENDS Integers, Sequences, FiniteSets, TLC

VARIABLES
    task_args,        \* self._task.args: the caller's argument mapping
    role,             \* self._task._role is set (role_path is RolePath)
    inv,              \* number of invocations of run() started so far
    pc,               \* position of the current invocation of run()
    self,             \* the instance attributes _set_args and _load_files set
    set_args_ret,     \* what _set_args returned to run() (run drops it)
    result,           \* the dict run() builds and returns
    results,          \* run()'s accumulated mapping
    gen,              \* the _traverse_dir_depth generator's frame
    cur,              \* the frame of the _load_files call in progress
    error,            \* the exception that ended run(), if one did
    yielded,          \* history: directories the generator yielded
    loaded,           \* history: files handed to self._loader, in call order
    vanished          \* history: paths path.exists found missing at load time

vars == << task_args, role, inv, pc, self, set_args_ret, result, results,
           gen, cur, error, yielded, loaded, vanished >>

-----------------------------------------------------------------------------
(* Bounds of the model. *)

MaxInvocations == 2

MaxDepth == 2

-----------------------------------------------------------------------------
(* Strings. *)

None == << >>

Range(s) == { s[i] : i \in 1..Len(s) }

Min(a, b) == IF a <= b THEN a ELSE b

\* The characters the model's strings use, in code-point order.
Ascii == << " ", "*", ".", "/", "A", "D", "E", "M", "R",
            "a", "b", "c", "d", "e", "g", "i", "l", "m", "n", "p", "r", "s",
            "t", "v", "w", "x", "y", "z" >>

Ord(c) == CHOOSE i \in 1..Len(Ascii) : Ascii[i] = c

\* Python's < on two str values: lexicographic by code point.
RECURSIVE StrLess(_, _)
StrLess(s, t) ==
    IF t = << >> THEN FALSE
    ELSE IF s = << >> THEN TRUE
    ELSE IF s[1] # t[1] THEN Ord(s[1]) < Ord(t[1])
    ELSE StrLess(Tail(s), Tail(t))

\* os.path.join(a, b) for a relative b.
PathJoin(a, b) == a \o << "/" >> \o b

\* str.split(): the maximal runs of non-blank characters.
RECURSIVE SplitFrom(_, _, _)
SplitFrom(s, word, acc) ==
    IF s = << >> THEN (IF word = << >> THEN acc ELSE Append(acc, word))
    ELSE IF s[1] = " "
         THEN SplitFrom(Tail(s), << >>,
                        IF word = << >> THEN acc ELSE Append(acc, word))
         ELSE SplitFrom(Tail(s), Append(word, s[1]), acc)

StrSplit(s) == SplitFrom(s, << >>, << >>)

-----------------------------------------------------------------------------
(* Regular expressions: the fragment of Python's re the model's patterns    *)
(* use.  A pattern is a string of literal characters, "." (any character)   *)
(* and "*" (zero or more of the atom before it).                            *)

\* re.compile raises re.error ("nothing to repeat", "multiple repeat") when a
\* "*" has no atom before it.
RegexValid(p) ==
    \A i \in 1..Len(p) : p[i] = "*" => (i > 1 /\ p[i - 1] # "*")

AtomMatches(a, c) == a = "." \/ a = c

\* The pattern p matches a prefix of s; with toEnd, it matches all of s (the
\* pattern ends in "$", and no string of the model ends in a newline).
RECURSIVE MatchHere(_, _, _)
MatchHere(p, s, toEnd) ==
    IF p = << >> THEN (~toEnd \/ s = << >>)
    ELSE IF Len(p) >= 2 /\ p[2] = "*"
         THEN \E k \in 0..Len(s) :
                 /\ \A j \in 1..k : AtomMatches(p[1], s[j])
                 /\ MatchHere(SubSeq(p, 3, Len(p)),
                              SubSeq(s, k + 1, Len(s)), toEnd)
         ELSE /\ s # << >>
              /\ AtomMatches(p[1], s[1])
              /\ MatchHere(Tail(p), Tail(s), toEnd)

\* re.search: a match starting at any position of s.
ReSearch(p, s, toEnd) ==
    \E i \in 0..Len(s) : MatchHere(p, SubSeq(s, i + 1, Len(s)), toEnd)

-----------------------------------------------------------------------------
(* Mappings (dict). *)

EmptyMap == [k \in {} |-> 0]

\* dict.update: the keys of b overwrite those of a, whole values.
Update(a, b) ==
    [k \in (DOMAIN a) \cup (DOMAIN b) |-> IF k \in DOMAIN b THEN b[k] ELSE a[k]]

\* '<text>'.format(arg), kept as its two parts.
Msg(text, arg) == [text |-> text, arg |-> arg]

-----------------------------------------------------------------------------
(* The file system and the loader: the inputs of the plugin. *)

Yml == << ".", "y", "m", "l" >>

MainYml == << "m", "a", "i", "n" >> \o Yml

SecretYml == << "s", "e", "c", "r", "e", "t" >> \o Yml

ReadmeMd == << "R", "E", "A", "D", "M", "E", ".", "m", "d" >>

F(c) == << c >> \o Yml

Vars == << "v", "a", "r", "s" >>

RolePath == << "r" >>

\* A directory argument that names no directory.
NoSuchDir == << "z" >>

\* os.walk(top) before sorting: top-down, siblings in listing order, file names
\* in listing order.  Three trees, named by the last component of top.
TreeOf(name) ==
    IF name = Vars
    THEN << [rel |-> << >>,
             files |-> << SecretYml, MainYml, F("a"), ReadmeMd >>] >>
    ELSE IF name = << "a" >>
    THEN << [rel |-> << >>,                files |-> << F("b"), F("a") >>],
            [rel |-> << "s" >>,            files |-> << F("c") >>],
            [rel |-> << "s", "/", "t" >>,  files |-> << F("e") >>],
            [rel |-> << "s", ".", "d" >>,  files |-> << F("d") >>] >>
    ELSE << [rel |-> << >>,      files |-> << F("a") >>],
            [rel |-> << "n" >>,  files |-> << F("w") >>],
            [rel |-> << "m" >>,  files |-> << F("z"), F("x"), F("y") >>] >>

TreeNames == { Vars, << "a" >>, << "b" >> }

\* The directories that exist: each tree at its place outside a role and at
\* its place under the role's vars directory.
RootOf(name, inRole) ==
    IF ~inRole THEN name
    ELSE IF name = Vars THEN PathJoin(RolePath, Vars)
    ELSE PathJoin(PathJoin(RolePath, Vars), name)

FsRoots == { RootOf(n, r) : n \in TreeNames, r \in BOOLEAN }

NameOfRoot(top) ==
    CHOOSE n \in TreeNames : \E r \in BOOLEAN : RootOf(n, r) = top

Walk(top) ==
    LET t == TreeOf(NameOfRoot(top))
    IN  [i \in 1..Len(t) |->
            [root  |-> IF t[i].rel = << >> THEN top ELSE PathJoin(top, t[i].rel),
             files |-> t[i].files]]

RECURSIVE Basename(_)
Basename(path) ==
    IF \A i \in 1..Len(path) : path[i] # "/" THEN path
    ELSE Basename(Tail(path))

NoneData == [kind |-> "none", map |-> EmptyMap]

ListData == [kind |-> "list", map |-> EmptyMap]

MapData(m) == [kind |-> "map", map |-> m]

\* self._loader._get_file_contents followed by self._loader.load: the parsed
\* values and show_content flags the loader can answer for a file.  The loader
\* is the host's: a.yml may hold a mapping or a list, d.yml is empty and may
\* or may not be safe to log.
LoaderOutcomes(filepath) ==
    LET f == Basename(filepath)
    IN  IF f = F("a")
        THEN { [data |-> MapData("k1" :> 1), show |-> TRUE],
               [data |-> ListData, show |-> TRUE] }
        ELSE IF f = F("b")
        THEN { [data |-> MapData("k1" :> 2 @@ "k2" :> ("n" :> 2)), show |-> TRUE] }
        ELSE IF f = F("c")
        THEN { [data |-> MapData("k2" :> ("m" :> 3)), show |-> FALSE] }
        ELSE IF f = F("d")
        THEN { [data |-> NoneData, show |-> sh] : sh \in BOOLEAN }
        ELSE IF f = F("e")
        THEN { [data |-> MapData("k1" :> 4 @@ "k3" :> 4), show |-> TRUE] }
        ELSE IF f = MainYml THEN { [data |-> MapData("k1" :> 5), show |-> TRUE] }
        ELSE IF f = SecretYml
        THEN { [data |-> MapData("k2" :> ("s" :> 6)), show |-> FALSE] }
        ELSE IF f = F("x") THEN { [data |-> MapData("k3" :> 7), show |-> TRUE] }
        ELSE IF f = F("z") THEN { [data |-> MapData("k1" :> 8), show |-> TRUE] }
        ELSE IF f = F("w")
        THEN { [data |-> MapData("k2" :> ("w" :> 9)), show |-> TRUE] }
        ELSE { [data |-> ListData, show |-> TRUE] }

\* The files that may disappear between the listing and the load.
Volatile == { F("b") }

\* What path.exists(filepath) can answer at load time.
PathExistsOutcomes(filepath) ==
    IF Basename(filepath) \in Volatile THEN BOOLEAN ELSE { TRUE }

-----------------------------------------------------------------------------
(* _set_args. *)

IGNORE_FILES == << << ".", "*", ".", "m", "d" >>,
                   << ".", "*", ".", "p", "y" >>,
                   << ".", "*", ".", "p", "y", "c" >> >>

VALID_ARGUMENTS == { "name", "dir", "depth", "files_matching", "ignore_files" }

\* self._task.args.get(key, default)
ArgGet(args, key, default) == IF key \in args.keys THEN args[key] ELSE default

\* The first argument the loop of lines 39-44 rejects, if there is one.
InvalidArgs(args) == args.keys \ VALID_ARGUMENTS

\* A resolution that leaves the compilation of the pattern to its first use.
CompileNeverRaises(files_matching) == FALSE

\* re.compile(files_matching), line 50, raises for a pattern that is not a
\* regular expression.
CompileRaises(files_matching) == ~RegexValid(files_matching)

\* self.ignore_files after lines 53-61, for the kinds _set_args lets through.
ResolvedIgnoreFiles(ign) ==
    (IF ign.kind = "str" THEN StrSplit(ign.val) ELSE ign.val) \o IGNORE_FILES

\* list.extend on the list object the caller passed (line 53 takes the
\* caller's list itself, line 61 extends it); a str is split into a new list
\* and an absent option is a new list: neither touches the caller's mapping.
ArgsAfterExtend(args) ==
    IF "ignore_files" \in args.keys /\ args.ignore_files.kind = "list"
    THEN [args EXCEPT !.ignore_files.val = @ \o IGNORE_FILES]
    ELSE args

NoIgnoreFiles == [kind |-> "list", val |-> << >>]

NewInstance ==
    [bound |-> FALSE, show_content |-> TRUE, return_results_as_name |-> None,
     source_dir |-> None, depth |-> 0, files_matching |-> None,
     matcher |-> None, ignore_files |-> << >>]

NoError == [kind |-> "none", at |-> "none", msg |-> Msg("", << >>)]

NewGen == [started |-> FALSE, sorted_walk |-> << >>, pos |-> 1,
           current_depth |-> 0, done |-> FALSE]

NoFrame == [root_dir |-> None, var_files |-> << >>, i |-> 1,
            results |-> EmptyMap, failed |-> FALSE,
            err_msg |-> Msg("", << >>)]

\* What _set_args does to the instance, what it returns or raises, and what
\* it leaves in the caller's mapping.
SetArgs(args) ==
    LET bad   == InvalidArgs(args)
        fm    == ArgGet(args, "files_matching", None)
        ign   == ArgGet(args, "ignore_files", NoIgnoreFiles)
        named == [NewInstance EXCEPT
                    !.bound = TRUE,
                    !.return_results_as_name = ArgGet(args, "name", None),
                    !.source_dir = ArgGet(args, "dir", None),
                    !.depth = ArgGet(args, "depth", 0),
                    !.files_matching = fm]
    IN  IF bad # {}
        THEN [self |-> NewInstance, args |-> args, raised |-> NoError,
              ret  |-> "failed" :> TRUE @@
                       "message" :> Msg("is not a valid option in debug",
                                        CHOOSE a \in bad : TRUE)]
        ELSE IF fm # None /\ CompileRaises(fm)
        THEN [self |-> named, args |-> args, ret |-> EmptyMap,
              raised |-> [kind |-> "re.error", at |-> "_set_args",
                          msg |-> Msg("invalid regular expression", fm)]]
        ELSE IF ign.kind = "dict"
        THEN [self |-> [named EXCEPT !.matcher = fm, !.ignore_files = ign.val],
              args |-> args, raised |-> NoError,
              ret  |-> "failed" :> TRUE @@
                       "message" :> Msg("must be a list", ign.val)]
        ELSE LET done == [named EXCEPT !.matcher = fm,
                             !.ignore_files = ResolvedIgnoreFiles(ign)]
             IN  IF done.source_dir = None
                 THEN [self |-> done, args |-> ArgsAfterExtend(args),
                       ret |-> EmptyMap,
                       raised |-> [kind |-> "AnsibleError", at |-> "_set_args",
                                   msg |-> Msg("No directory was found for the included vars.",
                                               None)]]
                 ELSE [self |-> done, args |-> ArgsAfterExtend(args),
                       ret |-> EmptyMap, raised |-> NoError]

-----------------------------------------------------------------------------
(* _traverse_dir_depth. *)

\* list.sort(key=lambda x: x[0]), line 127: insertion into ascending order of
\* the root paths.
RECURSIVE InsertByRoot(_, _)
InsertByRoot(e, sorted) ==
    IF sorted = << >> THEN << e >>
    ELSE IF StrLess(e.root, sorted[1].root) THEN << e >> \o sorted
    ELSE << sorted[1] >> \o InsertByRoot(e, Tail(sorted))

RECURSIVE SortWalk(_)
SortWalk(w) ==
    IF w = << >> THEN << >>
    ELSE InsertByRoot(w[Len(w)], SortWalk(SubSeq(w, 1, Len(w) - 1)))

\* A generator that yields the file names as listed.
SortFilesAsListed(fs) == fs

\* current_files.sort(), line 131.
RECURSIVE InsertName(_, _)
InsertName(f, sorted) ==
    IF sorted = << >> THEN << f >>
    ELSE IF StrLess(f, sorted[1]) THEN << f >> \o sorted
    ELSE << sorted[1] >> \o InsertName(f, Tail(sorted))

RECURSIVE SortFiles(_)
SortFiles(fs) ==
    IF fs = << >> THEN << >>
    ELSE InsertName(fs[Len(fs)], SortFiles(SubSeq(fs, 1, Len(fs) - 1)))

\* A limit that stops one directory early.
DepthAllowsBelow(current_depth, depth) == current_depth < depth \/ depth = 0

\* The condition of line 130.
DepthAllows(current_depth, depth) == current_depth <= depth \/ depth = 0

-----------------------------------------------------------------------------
(* _ignore_file and the conditions of _load_files. *)

\* _ignore_file, lines 144-151: the patterns are tried in order; the first
\* that is no regular expression raises, the first that matches at the end
\* of the name answers True.
RECURSIVE IgnoreFile(_, _)
IgnoreFile(patterns, filename) ==
    IF patterns = << >> THEN [raised |-> FALSE, ignore |-> FALSE, pattern |-> None]
    ELSE IF ~RegexValid(patterns[1])
    THEN [raised |-> TRUE, ignore |-> FALSE, pattern |-> patterns[1]]
    ELSE IF ReSearch(patterns[1], filename, TRUE)
    THEN [raised |-> FALSE, ignore |-> TRUE, pattern |-> patterns[1]]
    ELSE IgnoreFile(Tail(patterns), filename)

\* A loop without the role's main.yml exclusion.
SkipInRoleNever(inRole, filename) == FALSE

\* Lines 168-171.
SkipInRole(inRole, filename) == inRole /\ filename = MainYml

\* Lines 174-176: stop_iter.
StopIter(files_matching, matcher, filename) ==
    files_matching # None /\ ~ReSearch(matcher, filename, FALSE)

\* A condition that goes on loading after a failure.
ShouldLoadAfterFailure(stop_iter, failed) == ~stop_iter

\* Line 178.
ShouldLoad(stop_iter, failed) == ~stop_iter /\ ~failed

\* Line 188: isinstance(data, dict), after None became dict() (186-187).
IsDict(data) == data.kind \in { "map", "none" }

\* Line 111.
NoLogFlag(show_content) == show_content

-----------------------------------------------------------------------------
(* The invocations the model explores. *)

NameChoices == { << "n" >> }

DirChoices == TreeNames \cup { NoSuchDir }

FilesMatchingChoices == { << "a", ".", "*", "l" >>, << "*", "y" >> }

IgnoreFilesChoices ==
    { [kind |-> "str",  val |-> SecretYml \o << " " >> \o F("c")],
      [kind |-> "list", val |-> << SecretYml >>],
      [kind |-> "list", val |-> << SecretYml, << "*", "x" >> >>],
      [kind |-> "dict", val |-> << SecretYml >>] }

\* A task argument mapping: keys holds the keys that are present, and the
\* field of an absent key holds the default .get() would answer.
MakeArgs(keys, name, dir, depth, fm, ign) ==
    [keys |-> keys,
     name |-> IF "name" \in keys THEN name ELSE None,
     dir |-> IF "dir" \in keys THEN dir ELSE None,
     depth |-> IF "depth" \in keys THEN depth ELSE 0,
     files_matching |-> IF "files_matching" \in keys THEN fm ELSE None,
     ignore_files |-> IF "ignore_files" \in keys THEN ign ELSE NoIgnoreFiles]

ArgsChoices ==
    { MakeArgs(keys, name, dir, depth, fm, ign) :
        keys \in SUBSET (VALID_ARGUMENTS \cup { "bogus" }),
        name \in NameChoices, dir \in DirChoices, depth \in 0..MaxDepth,
        fm \in FilesMatchingChoices, ign \in IgnoreFilesChoices }

Init ==
    /\ task_args \in ArgsChoices
    /\ role \in BOOLEAN
    /\ inv = 0
    /\ pc = "idle"
    /\ self = NewInstance
    /\ set_args_ret = EmptyMap
    /\ result = EmptyMap
    /\ results = EmptyMap
    /\ gen = NewGen
    /\ cur = NoFrame
    /\ error = NoError
    /\ yielded = << >>
    /\ loaded = << >>
    /\ vanished = {}

-----------------------------------------------------------------------------
(* run(). *)

\* Lines 75-76: a new instance of the plugin starts run(), which calls
\* _set_args and drops what it returns.
Run_SetArgs ==
    /\ pc \in { "idle", "returned", "raised" }
    /\ inv < MaxInvocations
    /\ LET r == SetArgs(task_args)
       IN  /\ self' = r.self
           /\ task_args' = r.args
           /\ set_args_ret' = r.ret
           /\ error' = r.raised
           /\ pc' = IF r.raised.kind = "none" THEN "resolved" ELSE "raised"
    /\ inv' = inv + 1
    /\ result' = EmptyMap
    /\ results' = EmptyMap
    /\ gen' = NewGen
    /\ cur' = NoFrame
    /\ yielded' = << >>
    /\ loaded' = << >>
    /\ vanished' = {}
    /\ UNCHANGED role

\* Lines 82-92: the source directory inside a role.
RoleSourceDir(source_dir) ==
    IF source_dir = Vars THEN PathJoin(RolePath, source_dir)
    ELSE PathJoin(PathJoin(RolePath, Vars), source_dir)

\* Line 93: path.exists(self.source_dir).
PathExists(source_dir) == source_dir \in FsRoots

\* Lines 113-116.
MissingDirResult(res, source_dir) ==
    "failed" :> TRUE @@ "message" :> Msg("directory does not exist", source_dir)
        @@ res

\* Lines 77-93 and 112-118: super().run() answers an empty dict; reading
\* self.source_dir on an instance _set_args left early raises AttributeError,
\* and a None source_dir makes path.join or path.exists raise (TypeError, or
\* AttributeError from path.join under Python 2).
Run_Prologue ==
    /\ pc = "resolved"
    /\ IF ~self.bound
       THEN /\ pc' = "raised"
            /\ error' = [kind |-> "AttributeError", at |-> "run",
                         msg |-> Msg("no attribute", << "s", "o", "u", "r", "c", "e" >>)]
            /\ UNCHANGED << self, result >>
       ELSE IF self.source_dir = None
       THEN /\ pc' = "raised"
            /\ \E k \in (IF role THEN { "TypeError", "AttributeError" }
                         ELSE { "TypeError" }) :
                  error' = [kind |-> k, at |-> "run",
                            msg |-> Msg("source_dir is None", None)]
            /\ UNCHANGED << self, result >>
       ELSE LET sd == IF role THEN RoleSourceDir(self.source_dir)
                      ELSE self.source_dir
            IN  /\ self' = [self EXCEPT !.source_dir = sd]
                /\ IF PathExists(sd)
                   THEN pc' = "loop" /\ result' = EmptyMap
                   ELSE pc' = "returned"
                        /\ result' = MissingDirResult(EmptyMap, sd)
                /\ UNCHANGED error
    /\ results' = EmptyMap
    /\ UNCHANGED << task_args, role, inv, set_args_ret, gen, cur, yielded,
                    loaded, vanished >>

\* Line 94 asking the generator for its next value, lines 125-134: the first
\* request lists and sorts the whole tree; each request counts one directory
\* and yields it with its sorted file names, or ends the generator.
Traverse_Next ==
    /\ pc = "loop"
    /\ LET sw == IF gen.started THEN gen.sorted_walk
                 ELSE SortWalk(Walk(self.source_dir))
           depth == gen.current_depth + 1
       IN  IF gen.pos <= Len(sw) /\ DepthAllows(depth, self.depth)
           THEN /\ gen' = [started |-> TRUE,
                           sorted_walk |->
                               [sw EXCEPT ![gen.pos].files = SortFiles(@)],
                           pos |-> gen.pos + 1, current_depth |-> depth,
                           done |-> FALSE]
                /\ cur' = [NoFrame EXCEPT !.root_dir = sw[gen.pos].root,
                               !.var_files = SortFiles(sw[gen.pos].files)]
                /\ yielded' = Append(yielded, sw[gen.pos].root)
                /\ pc' = "load"
           ELSE /\ gen' = [started |-> TRUE, sorted_walk |-> sw,
                           pos |-> gen.pos,
                           current_depth |-> IF gen.pos <= Len(sw) THEN depth
                                             ELSE gen.current_depth,
                           done |-> TRUE]
                /\ pc' = "finish"
                /\ UNCHANGED << cur, yielded >>
    /\ UNCHANGED << task_args, role, inv, self, set_args_ret, result, results,
                    error, loaded, vanished >>

-----------------------------------------------------------------------------
(* _load_files. *)

\* Lines 186-195: what a loaded value does to the frame of _load_files.
FrameAfterLoad(frame, filepath, data) ==
    IF ~IsDict(data)
    THEN [frame EXCEPT !.failed = TRUE,
                       !.err_msg = Msg("must be stored as a dictionary/hash",
                                       filepath)]
    ELSE [frame EXCEPT !.results = Update(@, data.map)]

\* Lines 184-185.
ShowContentAfter(show_content, show) == IF ~show THEN FALSE ELSE show_content

\* One turn of the loop of lines 165-195, on var_files[i].
LoadFiles_Step ==
    /\ pc = "load"
    /\ cur.i <= Len(cur.var_files)
    /\ LET filename == cur.var_files[cur.i]
           filepath == PathJoin(cur.root_dir, filename)
           next     == [cur EXCEPT !.i = @ + 1]
           skip     == /\ cur' = next
                       /\ UNCHANGED << pc, self, error, loaded, vanished >>
       IN  IF SkipInRole(role, filename) THEN skip
           ELSE IF ~ShouldLoad(StopIter(self.files_matching, self.matcher, filename),
                               cur.failed)
           THEN skip
           ELSE \E exists \in PathExistsOutcomes(filepath) :
                   IF ~exists
                   THEN /\ cur' = next
                        /\ vanished' = vanished \cup { filepath }
                        /\ UNCHANGED << pc, self, error, loaded >>
                   ELSE LET ign == IgnoreFile(self.ignore_files, filename)
                        IN  IF ign.raised
                            THEN /\ pc' = "raised"
                                 /\ error' = [kind |-> "AnsibleError",
                                              at |-> "_ignore_file",
                                              msg |-> Msg("Invalid regular expression",
                                                          ign.pattern)]
                                 /\ UNCHANGED << cur, self, loaded, vanished >>
                            ELSE IF ign.ignore THEN skip
                            ELSE \E got \in LoaderOutcomes(filepath) :
                                 /\ loaded' = Append(loaded,
                                        [dir |-> cur.root_dir, file |-> filename,
                                         data |-> got.data, show |-> got.show])
                                 /\ self' = [self EXCEPT !.show_content =
                                                ShowContentAfter(@, got.show)]
                                 /\ cur' = FrameAfterLoad(next, filepath, got.data)
                                 /\ UNCHANGED << pc, error, vanished >>
    /\ UNCHANGED << task_args, role, inv, set_args_ret, result, results, gen,
                    yielded >>

\* A failure that records the message and not the flag.
FailResultMessageOnly(res, failed, err_msg) == "message" :> err_msg @@ res

\* Lines 101-102.
FailResult(res, failed, err_msg) ==
    "failed" :> failed @@ "message" :> err_msg @@ res

\* Line 196 and lines 95-103: _load_files returns; run() folds the fragment
\* into results, or records the failure and leaves the loop.
LoadFiles_Return ==
    /\ pc = "load"
    /\ cur.i > Len(cur.var_files)
    /\ IF ~cur.failed
       THEN /\ results' = Update(results, cur.results)
            /\ pc' = "loop"
            /\ UNCHANGED result
       ELSE /\ result' = FailResult(result, cur.failed, cur.err_msg)
            /\ pc' = "finish"
            /\ UNCHANGED results
    /\ UNCHANGED << task_args, role, inv, self, set_args_ret, gen, cur, error,
                    yielded, loaded, vanished >>

\* Lines 105-108.
Scoped(name, res) == IF name # None THEN name :> res ELSE res

\* Lines 110-111.
FinishResult(res, facts, show_content) ==
    "ansible_facts" :> facts @@ "_ansible_no_log" :> NoLogFlag(show_content)
        @@ res

\* Lines 105-111 and 118: after the loop, run() returns its result.
Run_Finish ==
    /\ pc = "finish"
    /\ results' = Scoped(self.return_results_as_name, results)
    /\ result' = FinishResult(result, results', self.show_content)
    /\ pc' = "returned"
    /\ UNCHANGED << task_args, role, inv, self, set_args_ret, gen, cur, error,
                    yielded, loaded, vanished >>

Next ==
    \/ Run_SetArgs
    \/ Run_Prologue
    \/ Traverse_Next
    \/ LoadFiles_Step
    \/ LoadFiles_Return
    \/ Run_Finish

Spec == Init /\ [][Next]_vars

-----------------------------------------------------------------------------
(* Vocabulary of the properties. *)

Returned == pc = "returned"

Failed == "failed" \in DOMAIN result /\ result["failed"]

HasFacts == "ansible_facts" \in DOMAIN result

NotMapping(data) == data.kind = "list"

LoadedIdx == 1..Len(loaded)

\* Ascending (directory path, file name) order.
EntryLess(d1, f1, d2, f2) ==
    StrLess(d1, d2) \/ (d1 = d2 /\ StrLess(f1, f2))

\* Last writer wins, whole values, over the loaded files idx: each key has the
\* value given by the file that defines it and comes last in the order.
Merged(idx) ==
    LET defs(k) == { i \in idx : k \in DOMAIN loaded[i].data.map }
        last(k) == CHOOSE i \in defs(k) :
                      \A j \in defs(k) \ { i } :
                         EntryLess(loaded[j].dir, loaded[j].file,
                                   loaded[i].dir, loaded[i].file)
    IN  [k \in UNION { DOMAIN loaded[i].data.map : i \in idx } |->
            loaded[last(k)].data.map[k]]

\* The merged mapping inside the returned facts, under name when one is given.
Facts ==
    IF self.return_results_as_name # None
    THEN result["ansible_facts"][self.return_results_as_name]
    ELSE result["ansible_facts"]

\* run()'s accumulator, which lines 105-108 rebind to the nested mapping.
Accumulated ==
    IF Returned /\ HasFacts /\ self.return_results_as_name # None
    THEN results[self.return_results_as_name]
    ELSE results

\* The listing of the directory root in the tree being walked.
ListingOf(root) ==
    LET w == Walk(self.source_dir)
    IN  w[CHOOSE i \in 1..Len(w) : w[i].root = root].files

\* Argument resolution found an InvalidArgument condition.
InvalidArgument ==
    \/ InvalidArgs(task_args) # {}
    \/ task_args.ignore_files.kind = "dict"

UserPatterns ==
    IF task_args.ignore_files.kind = "str"
    THEN Range(StrSplit(task_args.ignore_files.val))
    ELSE Range(task_args.ignore_files.val)

-----------------------------------------------------------------------------
(* C1: when run() returns without failure, the merged mapping has exactly   *)
(* the keys of the loaded files, and each key has the whole value given by  *)
(* the loaded file that is last in ascending (directory, file name) order.  *)
C1_LastWriterWins ==
    (Returned /\ ~Failed) => (HasFacts /\ Facts = Merged(LoadedIdx))

\* A run that returned a merge in which one key was written by two files of
\* one directory and by a file of a later directory.
C1_Witness ==
    /\ Returned /\ ~Failed
    /\ \E i, j, k \in LoadedIdx :
          /\ i # j /\ loaded[i].dir = loaded[j].dir /\ loaded[k].dir # loaded[i].dir
          /\ "k1" \in DOMAIN loaded[i].data.map
          /\ "k1" \in DOMAIN loaded[j].data.map
          /\ "k1" \in DOMAIN loaded[k].data.map
    /\ \E i, j \in LoadedIdx :
          /\ "k2" \in DOMAIN loaded[i].data.map
          /\ "k2" \in DOMAIN loaded[j].data.map
          /\ loaded[i].data.map["k2"] # loaded[j].data.map["k2"]

(* C2: a returned result carries one outcome: ansible_facts only without    *)
(* failure, failed=true with a message only on failure, never both; after   *)
(* a non-mapping file it has failed=true, a message with the file's path    *)
(* and no ansible_facts.  (Stated of the invocations whose arguments are    *)
(* valid; C3 is about the others.)                                          *)
C2_OneOutcome ==
    (Returned /\ ~InvalidArgument) =>
        /\ ~(HasFacts /\ "failed" \in DOMAIN result)
        /\ ("failed" \in DOMAIN result <=> "message" \in DOMAIN result)
        /\ cur.failed =>
              /\ Failed
              /\ result["message"].arg =
                    PathJoin(loaded[Len(loaded)].dir, loaded[Len(loaded)].file)
              /\ ~HasFacts

(* C3: an argument key outside the recognised set, or an ignore_files that  *)
(* is a mapping, makes the invocation fail before any directory is          *)
(* traversed or file loaded, and it never returns ansible_facts as success. *)
C3_InvalidArgumentFails ==
    (inv >= 1 /\ InvalidArgument) =>
        /\ yielded = << >>
        /\ loaded = << >>
        /\ ~(Returned /\ HasFacts /\ ~Failed)

(* C4: the generator yields the directories at positions 1..min(d, n) of    *)
(* the ascending order of the n paths, in that order, and nothing after     *)
(* them; with d = 0 it yields all n.                                        *)
C4_DepthPrefix ==
    gen.started =>
        LET roots == { e.root : e \in Range(Walk(self.source_dir)) }
            n == Cardinality(roots)
            expect == IF self.depth = 0 THEN n ELSE Min(self.depth, n)
        IN  /\ \A i \in 1..Len(yielded) : yielded[i] \in roots
            /\ \A i, j \in 1..Len(yielded) : i < j => StrLess(yielded[i], yielded[j])
            /\ \A r \in roots \ Range(yielded) :
                  \A i \in 1..Len(yielded) : StrLess(yielded[i], r)
            /\ Len(yielded) <= expect
            /\ gen.done => Len(yielded) = expect

\* The generator ended at a depth limit below the number of directories,
\* having yielded directories in an order the listing did not have.
C4_Witness ==
    /\ gen.done
    /\ self.depth >= 2
    /\ self.depth < Len(gen.sorted_walk)
    /\ Len(yielded) = self.depth
    /\ yielded[2] # Walk(self.source_dir)[2].root

(* C5: if a loaded file reports its safe-to-log flag as false, the returned *)
(* _ansible_no_log is true.                                                 *)
C5_SuppressionOn ==
    (Returned /\ \E i \in LoadedIdx : ~loaded[i].show) =>
        ("_ansible_no_log" \in DOMAIN result /\ result["_ansible_no_log"])

(* C6 as stated: every merge-time error, NotAMapping or InvalidPattern,    *)
(* ends with run() returning one result that carries failed=true and a      *)
(* message.                                                                 *)
C6_AlwaysStructured ==
    ((cur.failed \/ error.at = "_ignore_file") /\ pc \in { "returned", "raised" })
        => (Returned /\ Failed /\ "message" \in DOMAIN result)

(* C6, amended: a NotAMapping error ends with run() returning one result    *)
(* that carries failed=true and a message naming the file; an InvalidPattern *)
(* error ends run() by raising AnsibleError for the malformed pattern, and  *)
(* run() returns no result.                                                 *)
C6_StructuredOrRaised ==
    /\ (cur.failed /\ pc \in { "returned", "raised" }) =>
          /\ Returned /\ Failed
          /\ "message" \in DOMAIN result
          /\ result["message"] = cur.err_msg
          /\ cur.err_msg.arg =
                PathJoin(loaded[Len(loaded)].dir, loaded[Len(loaded)].file)
    /\ error.at = "_ignore_file" =>
          /\ pc = "raised"
          /\ error.kind = "AnsibleError"
          /\ ~RegexValid(error.msg.arg)
          /\ error.msg.arg \in UserPatterns
          /\ result = EmptyMap

\* A malformed ignore pattern was reached on a file name after an earlier
\* name of the directory had been passed over, and run() raised.
C6_Witness ==
    /\ pc = "raised"
    /\ error.at = "_ignore_file"
    /\ cur.i > 1
    /\ yielded # << >>

\* The files of the yielded directories _load_files has dealt with: all of an
\* earlier directory, and those before position i of the current one.
Processed ==
    UNION { { << yielded[n], f >> :
                 f \in IF n = Len(yielded)
                       THEN Range(SubSeq(cur.var_files, 1, cur.i - 1))
                       ELSE Range(ListingOf(yielded[n])) } :
            n \in 1..Len(yielded) }

WasLoaded(d, f) == \E i \in LoadedIdx : loaded[i].dir = d /\ loaded[i].file = f

\* The four conditions of C7 on the file f of the directory d.
Candidate(d, f) ==
    /\ ~(role /\ f = MainYml)
    /\ self.files_matching # None => ReSearch(self.files_matching, f, FALSE)
    /\ ~\E p \in UserPatterns \cup Range(IGNORE_FILES) :
           RegexValid(p) /\ ReSearch(p, f, TRUE)
    /\ PathJoin(d, f) \notin vanished

FailedBefore(d, f) ==
    \E i \in LoadedIdx :
       NotMapping(loaded[i].data) /\ EntryLess(loaded[i].dir, loaded[i].file, d, f)

(* C7 as stated: the files passed to the loader are exactly the file names  *)
(* that are not main.yml in a role, match the name pattern, match no ignore *)
(* pattern (the user's and the defaults) at their end, and exist at load    *)
(* time.                                                                    *)
C7_ExactlyTheCandidates ==
    (Returned /\ ~InvalidArgument) =>
        \A e \in Processed : WasLoaded(e[1], e[2]) <=> Candidate(e[1], e[2])

(* C7, amended: the files passed to the loader are exactly the file names   *)
(* that satisfy the four conditions and are not preceded, in (directory,    *)
(* file name) order, by a loaded file whose value is not a mapping.         *)
C7_CandidatesUntilFailure ==
    ~InvalidArgument =>
        /\ \A e \in Processed :
              WasLoaded(e[1], e[2]) <=>
                  (Candidate(e[1], e[2]) /\ ~FailedBefore(e[1], e[2]))
        /\ \A i \in LoadedIdx : << loaded[i].dir, loaded[i].file >> \in Processed

\* The example of the claim, outside a role: with ignore_files = [secret.yml]
\* the directory of a.yml, secret.yml, README.md and main.yml was processed
\* and a.yml and main.yml were loaded.
C7_Witness ==
    /\ Returned /\ ~role
    /\ task_args.ignore_files.kind = "list"
    /\ task_args.ignore_files.val # << >>
    /\ task_args.ignore_files.val[1] = SecretYml
    /\ yielded = << Vars >>
    /\ Len(loaded) = 2
    /\ loaded[1].file = F("a") /\ loaded[2].file = MainYml

(* C8: once a loaded file's value is not a mapping, no later file is loaded *)
(* and no later directory is yielded, and the accumulated merge is exactly  *)
(* the merge of the directories before the failing one.                     *)
C8_ShortCircuit ==
    \A j \in LoadedIdx :
       NotMapping(loaded[j].data) =>
          /\ j = Len(loaded)
          /\ yielded[Len(yielded)] = loaded[j].dir
          /\ cur.failed
          /\ Accumulated = Merged({ i \in LoadedIdx : loaded[i].dir # loaded[j].dir })
          /\ Returned => Failed

\* run() returned after a failure in a directory that had already given a
\* mapping, that had a later file, and that followed a directory which had
\* been merged.
C8_Witness ==
    /\ Returned
    /\ Len(loaded) = 3
    /\ NotMapping(loaded[3].data)
    /\ loaded[2].dir = loaded[3].dir
    /\ loaded[1].dir # loaded[3].dir
    /\ cur.i > Len(cur.var_files)
    /\ StrLess(loaded[3].file, cur.var_files[Len(cur.var_files)])
    /\ Len(yielded) < Len(gen.sorted_walk)

(* C9 as stated: an invalid files_matching pattern causes no error during   *)
(* argument resolution.                                                     *)
C9_NoErrorAtResolution ==
    ~(error.kind = "re.error" /\ error.at = "_set_args")

(* C9, amended: when every argument key is recognised, an invalid           *)
(* files_matching pattern raises the pattern error during argument          *)
(* resolution: no directory is traversed, no file is loaded and run()       *)
(* returns no result, whether the source directory exists or not.  The      *)
(* pattern raises nowhere else.                                             *)
C9_ErrorAtResolution ==
    /\ (inv >= 1 /\ InvalidArgs(task_args) = {}
          /\ task_args.files_matching # None
          /\ ~RegexValid(task_args.files_matching)) =>
          /\ pc = "raised"
          /\ error.kind = "re.error" /\ error.at = "_set_args"
          /\ yielded = << >> /\ loaded = << >> /\ result = EmptyMap
    /\ error.kind = "re.error" => error.at = "_set_args"

\* An invocation with an invalid files_matching and a source directory that
\* does not exist ended with the pattern error.
C9_Witness ==
    /\ pc = "raised"
    /\ error.kind = "re.error"
    /\ task_args.dir = NoSuchDir
    /\ ~RegexValid(task_args.files_matching)

(* C10: argument resolution leaves the caller's argument mapping unchanged, *)
(* and in each invocation the effective ignore patterns are the user's      *)
(* values followed by the defaults once.                                    *)
C10_ArgsUnchanged ==
    [][ /\ task_args' = task_args
        /\ (pc' = "resolved" /\ pc # "resolved" /\ ~InvalidArgument) =>
              self'.ignore_files = ResolvedIgnoreFiles(task_args.ignore_files) ]_vars

=============================================================================
